---- MODULE Spec2Model ----
(***************************************************************************)
(* Model of the ComfyUI-Forms plugin module (src/__init__.py): the node    *)
(* class MobileFormSettings (INPUT_TYPES, store, IS_CHANGED and its class  *)
(* attributes) and the module-level tables NODE_CLASS_MAPPINGS,            *)
(* NODE_DISPLAY_NAME_MAPPINGS and WEB_DIRECTORY, together with the host    *)
(* steps that drive the node: the front-end replacing the widget value and *)
(* the host evaluating the node (change detection, then dispatch of the    *)
(* declared FUNCTION).                                                     *)
(*                                                                         *)
(* Python values are modelled as follows.                                  *)
(*   str    a sequence of one-character strings, "{}" is <<"{", "}">>      *)
(*   float  a record [type |-> "float", nan, num]; nan marks float("nan")  *)
(*   dict   a function from keys to values; {} is the empty function <<>>  *)
(*   None   the empty sequence <<>>, a present value v is <<v>>            *)
(***************************************************************************)
EXTENDS Integers, Sequences, FiniteSets, TLC

\* Longest payload string the model enumerates.
MaxLen == 3

\* Characters payload strings are built from: enough for the empty string,
\* the default "{}", malformed JSON such as "{" or "}{", and longer strings.
Alphabet == {"{", "}"}

Strings == UNION {[1..n -> Alphabet] : n \in 0..MaxLen}

\* Optional values: None and Some(v).
None == <<>>
Some(v) == <<v>>

\* An actual argument list for the parameter settings_json: either the
\* argument is omitted or a string is passed.
NoArg == [given |-> FALSE, value |-> <<>>]
Arg(s) == [given |-> TRUE, value |-> s]
Args == {NoArg} \cup {Arg(s) : s \in Strings}

\* Python floats and their equality: float("nan") compares unequal to every
\* float, itself included (IEEE 754), every other float compares by value.
NaN == [type |-> "float", nan |-> TRUE, num |-> 0]
PyFloat(n) == [type |-> "float", nan |-> FALSE, num |-> n]
PyEq(a, b) == IF a.nan \/ b.nan THEN FALSE ELSE a.num = b.num

\* The outcome of a call: the value returned, or the exception raised.
Returned(v) == [raised |-> "none", ret |-> v]
Raised(e) == [raised |-> e, ret |-> <<>>]

\* json.loads accepts, among the strings over Alphabet, only "{}".
WellFormedJSON(s) == s = <<"{", "}">>

----
\* MobileFormSettings.INPUT_TYPES

INPUT_TYPES_singleline ==
    [required |-> [k \in {"settings_json"} |->
                      [type |-> "STRING",
                       options |-> [default |-> <<"{", "}">>,
                                    multiline |-> FALSE,
                                    dynamicPrompts |-> FALSE]]],
     optional |-> <<>>]

INPUT_TYPES_emptydefault ==
    [required |-> [k \in {"settings_json"} |->
                      [type |-> "STRING",
                       options |-> [default |-> <<>>,
                                    multiline |-> TRUE,
                                    dynamicPrompts |-> FALSE]]],
     optional |-> <<>>]

INPUT_TYPES ==
    [required |-> [k \in {"settings_json"} |->
                      [type |-> "STRING",
                       options |-> [default |-> <<"{", "}">>,
                                    multiline |-> TRUE,
                                    dynamicPrompts |-> FALSE]]],
     optional |-> <<>>]

\* The default of the parameter settings_json of store and IS_CHANGED.
ParamDefault == <<"{", "}">>

\* Binding of the parameter settings_json to an argument list.
Bind(arg) == IF arg.given THEN arg.value ELSE ParamDefault

\* MobileFormSettings.store
store_parsing(arg) ==
    IF WellFormedJSON(Bind(arg)) THEN Returned(<<>>) ELSE Raised("JSONDecodeError")

store_echo(arg) == Returned([k \in {"settings_json"} |-> Bind(arg)])

store(arg) == Returned(<<>>)

\* MobileFormSettings.IS_CHANGED
IS_CHANGED_length(arg) == Returned(PyFloat(Len(Bind(arg))))

IS_CHANGED_constant(arg) == Returned(PyFloat(0))

IS_CHANGED(arg) == Returned(NaN)

\* The class object: its attributes and the names of the methods it defines.
MobileFormSettings_execute ==
    [name |-> "MobileFormSettings",
     RETURN_TYPES |-> <<>>,
     FUNCTION |-> "execute",
     CATEGORY |-> "MobileForm",
     OUTPUT_NODE |-> TRUE,
     methods |-> {"INPUT_TYPES", "store", "IS_CHANGED"}]

MobileFormSettings ==
    [name |-> "MobileFormSettings",
     RETURN_TYPES |-> <<>>,
     FUNCTION |-> "store",
     CATEGORY |-> "MobileForm",
     OUTPUT_NODE |-> TRUE,
     methods |-> {"INPUT_TYPES", "store", "IS_CHANGED"}]

\* Module-level tables.
NODE_CLASS_MAPPINGS_extra ==
    [k \in {"MobileFormSettings", "MobileForm"} |-> MobileFormSettings]

NODE_CLASS_MAPPINGS == [k \in {"MobileFormSettings"} |-> MobileFormSettings]

NODE_DISPLAY_NAME_MAPPINGS_key ==
    [k \in {"MobileFormSettings"} |-> "MobileFormSettings"]

NODE_DISPLAY_NAME_MAPPINGS ==
    [k \in {"MobileFormSettings"} |-> "Mobile Form Settings"]

WEB_DIRECTORY == "./web"

----
VARIABLES
    class_mappings,         \* current value of NODE_CLASS_MAPPINGS
    display_name_mappings,  \* current value of NODE_DISPLAY_NAME_MAPPINGS
    web_directory,          \* current value of WEB_DIRECTORY
    settings_json,          \* the payload: the widget value the host holds
    origin,                 \* "default" or "persisted": how the node was created
    last_set,               \* None, or Some(the most recent replacement)
    step,                   \* the operation that produced this state
    call,                   \* argument list and outcome of the last store/IS_CHANGED call
    schema,                 \* None, or Some(what INPUT_TYPES last returned)
    is_changed_cache,       \* host: None, or Some(IS_CHANGED value of the last evaluation)
    is_changed_prev,        \* host: the cache before the last evaluation
    executed_with           \* host: None, or Some(payload FUNCTION last ran with)

vars == <<class_mappings, display_name_mappings, web_directory, settings_json,
          origin, last_set, step, call, schema, is_changed_cache,
          is_changed_prev, executed_with>>

module_vars == <<class_mappings, display_name_mappings, web_directory>>
host_vars == <<is_changed_cache, is_changed_prev, executed_with>>

NoCall == [arg |-> NoArg, out |-> Returned(<<>>)]

\* Import of the module, then the host creating the node with the schema's
\* default or with a value loaded from a saved workflow.
Init ==
    /\ class_mappings = NODE_CLASS_MAPPINGS
    /\ display_name_mappings = NODE_DISPLAY_NAME_MAPPINGS
    /\ web_directory = WEB_DIRECTORY
    /\ \E o \in {"default", "persisted"} :
          /\ origin = o
          /\ IF o = "default"
                THEN settings_json = INPUT_TYPES.required["settings_json"].options.default
                ELSE settings_json \in Strings
    /\ last_set = None
    /\ step = "init"
    /\ call = NoCall
    /\ schema = None
    /\ is_changed_cache = None
    /\ is_changed_prev = None
    /\ executed_with = None

\* A call of INPUT_TYPES().
CallInputTypes ==
    /\ schema' = Some(INPUT_TYPES)
    /\ step' = "INPUT_TYPES"
    /\ UNCHANGED <<module_vars, settings_json, origin, last_set, call, host_vars>>

\* A call of store(...) with any argument list.
CallStore_normalising(arg) ==
    /\ call' = [arg |-> arg, out |-> store(arg)]
    /\ step' = "store"
    /\ settings_json' = IF WellFormedJSON(Bind(arg)) THEN settings_json ELSE ParamDefault
    /\ UNCHANGED <<module_vars, origin, last_set, schema, host_vars>>

CallStore(arg) ==
    /\ call' = [arg |-> arg, out |-> store(arg)]
    /\ step' = "store"
    /\ UNCHANGED <<module_vars, settings_json, origin, last_set, schema, host_vars>>

\* A call of IS_CHANGED(...) with any argument list.
CallIsChanged_registering(arg) ==
    /\ call' = [arg |-> arg, out |-> IS_CHANGED(arg)]
    /\ step' = "IS_CHANGED"
    /\ class_mappings' = NODE_CLASS_MAPPINGS_extra
    /\ UNCHANGED <<display_name_mappings, web_directory, settings_json, origin,
                   last_set, schema, host_vars>>

CallIsChanged(arg) ==
    /\ call' = [arg |-> arg, out |-> IS_CHANGED(arg)]
    /\ step' = "IS_CHANGED"
    /\ UNCHANGED <<module_vars, settings_json, origin, last_set, schema, host_vars>>

\* The front-end replaces the payload when the user changes the layout.
ReplacePayload(s) ==
    /\ settings_json' = s
    /\ last_set' = Some(s)
    /\ step' = "replace"
    /\ UNCHANGED <<module_vars, origin, call, schema, host_vars>>

\* getattr(obj, name)(settings_json=s): the method of that name, if the class
\* defines one this module gives a body, else AttributeError.
Dispatch(cls, name, arg) ==
    IF name \notin cls.methods THEN Raised("AttributeError")
    ELSE IF name = "store" THEN store(arg)
    ELSE IF name = "IS_CHANGED" THEN IS_CHANGED(arg)
    ELSE Raised("TypeError")

\* One host evaluation of the node: IS_CHANGED is called with the held
\* payload; the node is skipped when the value equals the cached one, else
\* the declared FUNCTION of the registered class runs with the payload.
HostEvaluate ==
    LET cls == class_mappings["MobileFormSettings"]
        new == IS_CHANGED(Arg(settings_json)).ret
        same == is_changed_cache # None /\ PyEq(new, is_changed_cache[1])
    IN  /\ is_changed_prev' = is_changed_cache
        /\ is_changed_cache' = Some(new)
        /\ step' = "evaluate"
        /\ IF same
              THEN UNCHANGED <<executed_with, call>>
              ELSE /\ executed_with' = Some(settings_json)
                   /\ call' = [arg |-> Arg(settings_json),
                               out |-> Dispatch(cls, cls.FUNCTION, Arg(settings_json))]
        /\ UNCHANGED <<module_vars, settings_json, origin, last_set, schema>>

\* The node's operations called directly, interleaved with replacements of
\* the payload.
Next ==
    \/ CallInputTypes
    \/ \E arg \in Args : CallStore(arg)
    \/ \E arg \in Args : CallIsChanged(arg)
    \/ \E s \in Strings : ReplacePayload(s)

Spec == Init /\ [][Next]_vars

\* The node driven by the host: evaluations interleaved with replacements of
\* the payload.
NextHost ==
    \/ \E s \in Strings : ReplacePayload(s)
    \/ HostEvaluate

SpecHost == Init /\ [][NextHost]_vars

----
\* Properties of the node's operations.

\* C1: every call of store, with any string argument (empty, the default
\* "{}", malformed JSON, the longest strings) or with no argument at all,
\* returns an empty result and raises no error.
C1_StoreReturnsEmpty ==
    step = "store" =>
        /\ call.out.raised = "none"
        /\ DOMAIN call.out.ret = {}

C1_Witness ==
    /\ step = "store"
    /\ call.arg.given
    /\ Len(call.arg.value) = MaxLen
    /\ ~WellFormedJSON(call.arg.value)

\* C2: in every sequence of host evaluations, the value IS_CHANGED returned
\* at an evaluation is equal neither to itself nor to the value returned at
\* the previous evaluation, so the evaluation is not skipped: FUNCTION has
\* run with the payload held at that evaluation.
C2_AlwaysChanged ==
    step = "evaluate" =>
        /\ is_changed_cache # None
        /\ ~PyEq(is_changed_cache[1], is_changed_cache[1])
        /\ is_changed_prev # None => ~PyEq(is_changed_cache[1], is_changed_prev[1])
        /\ executed_with = Some(settings_json)

\* a second evaluation with the payload of the first (no replacement between)
C2_Witness ==
    /\ step = "evaluate"
    /\ is_changed_prev # None
    /\ last_set = None
    /\ executed_with = Some(settings_json)

\* C3: IS_CHANGED returns the not-a-number sentinel whatever its argument is.
C3_IsChangedIsNaN ==
    step = "IS_CHANGED" =>
        /\ call.out.raised = "none"
        /\ call.out.ret = NaN

C3_Witness ==
    /\ step = "IS_CHANGED"
    /\ call.arg.given
    /\ Len(call.arg.value) = MaxLen

\* C4: whatever happened before, INPUT_TYPES returns a schema with exactly
\* one required field, settings_json, of type STRING with default "{}",
\* multi-line, without dynamic prompts, and with no optional field.
C4_Schema ==
    schema # None =>
        LET req == schema[1].required
            opt == schema[1].optional
        IN  /\ DOMAIN req = {"settings_json"}
            /\ req["settings_json"].type = "STRING"
            /\ req["settings_json"].options.default = <<"{", "}">>
            /\ req["settings_json"].options.multiline = TRUE
            /\ req["settings_json"].options.dynamicPrompts = FALSE
            /\ DOMAIN opt = {}

C4_Witness ==
    /\ step = "INPUT_TYPES"
    /\ schema # None
    /\ last_set # None
    /\ call # NoCall

\* C5: in every reachable state the registration table has exactly one
\* entry, keyed "MobileFormSettings", whose value is the node class.
C5_ClassMappings ==
    /\ DOMAIN class_mappings = {"MobileFormSettings"}
    /\ class_mappings["MobileFormSettings"].name = "MobileFormSettings"
    /\ class_mappings["MobileFormSettings"].methods = {"INPUT_TYPES", "store", "IS_CHANGED"}

C5_Witness ==
    /\ step = "IS_CHANGED"
    /\ schema # None
    /\ last_set # None
    /\ DOMAIN class_mappings = {"MobileFormSettings"}

\* C6: in every reachable state the display-name table has exactly one
\* entry, keyed "MobileFormSettings", with value "Mobile Form Settings".
C6_DisplayNames ==
    /\ DOMAIN display_name_mappings = {"MobileFormSettings"}
    /\ display_name_mappings["MobileFormSettings"] = "Mobile Form Settings"

C6_Witness ==
    /\ step = "store"
    /\ schema # None
    /\ last_set # None
    /\ display_name_mappings["MobileFormSettings"] = "Mobile Form Settings"

\* C7: a call of store, IS_CHANGED or INPUT_TYPES leaves the payload, the
\* registration table, the display-name table and the asset directory
\* reference as they were.
C7_NoSideEffects ==
    [][step' \in {"store", "IS_CHANGED", "INPUT_TYPES"} =>
          /\ settings_json' = settings_json
          /\ class_mappings' = class_mappings
          /\ display_name_mappings' = display_name_mappings
          /\ web_directory' = web_directory]_vars

\* store has run on a malformed argument while the held payload is a
\* replaced, malformed one
C7_Witness ==
    /\ step = "store"
    /\ call.arg.given
    /\ ~WellFormedJSON(call.arg.value)
    /\ last_set # None
    /\ ~WellFormedJSON(settings_json)
    /\ web_directory = "./web"

\* C8: no operation reaches an error outcome, and store and IS_CHANGED give
\* for any argument, malformed JSON included, the result they give for the
\* well-formed "{}".
C8_Total ==
    /\ call.out.raised = "none"
    /\ step = "INPUT_TYPES" => schema # None
    /\ step = "store" => call.out = store(Arg(<<"{", "}">>))
    /\ step = "IS_CHANGED" => call.out = IS_CHANGED(Arg(<<"{", "}">>))

C8_Witness ==
    /\ step \in {"store", "IS_CHANGED"}
    /\ call.arg.given
    /\ call.arg.value = <<"}", "{">>
    /\ call.out.raised = "none"

\* C9: the held payload is the value of the most recent replacement, or,
\* if none has occurred and the node was created with the default, "{}".
C9_Payload ==
    /\ last_set # None => settings_json = last_set[1]
    /\ (last_set = None /\ origin = "default") => settings_json = <<"{", "}">>

C9_Witness ==
    /\ last_set # None
    /\ settings_json = last_set[1]
    /\ step = "store"
    /\ call.arg.given
    /\ call.arg.value # settings_json

\* C10: the registered class declares FUNCTION = "store", a method the class
\* defines, no output types and OUTPUT_NODE; when the host runs the declared
\* FUNCTION the call succeeds and returns as many outputs as declared: none.
C10_Interface ==
    LET cls == class_mappings["MobileFormSettings"]
    IN  /\ cls.FUNCTION = "store"
        /\ cls.FUNCTION \in cls.methods
        /\ cls.RETURN_TYPES = <<>>
        /\ cls.OUTPUT_NODE = TRUE
        /\ step = "evaluate" =>
              /\ call.out.raised = "none"
              /\ Cardinality(DOMAIN call.out.ret) = Len(cls.RETURN_TYPES)

C10_Witness ==
    /\ step = "evaluate"
    /\ last_set # None
    /\ call.arg = Arg(settings_json)
    /\ call.out.raised = "none"

====
